---- MODULE Spec2Model ----
(***************************************************************************)
(* stocks.py: fetch historical quotes per ticker, reduce the closing       *)
(* prices to min / max / avg / median, print the result list as JSON and   *)
(* write it to stocks.json.                                                *)
(*                                                                         *)
(* Text is modelled as a sequence of one-character strings.  A Python      *)
(* float is modelled as a decimal fixed-point number: an integer count of  *)
(* 10^-FracDigits units, every float operation rounding its exact result   *)
(* to the nearest unit, ties to even (as IEEE-754 does to the nearest      *)
(* binary64).                                                              *)
(***************************************************************************)
EXTENDS Integers, Sequences, FiniteSets, TLC

VARIABLES arguments, today, prior, pc, i, data, stats, stats_list,
          stdout, net, file, opened, wr, exc, exit_code

vars == <<arguments, today, prior, pc, i, data, stats, stats_list,
          stdout, net, file, opened, wr, exc, exit_code>>

-----------------------------------------------------------------------------
(* Bounds of the model *)

MaxTickers == 2
MaxRunRows == 1
MaxRows == 3
MaxStrLen == 4
FracDigits == 2

(* Program constants *)

YearsBack == 5
Indent == 4

-----------------------------------------------------------------------------
(* Numbers and text *)

RECURSIVE Pow10(_)
Pow10(n) == IF n = 0 THEN 1 ELSE 10 * Pow10(n - 1)

Unit == Pow10(FracDigits)

DigitChars == <<"0", "1", "2", "3", "4", "5", "6", "7", "8", "9">>

IsDigit(c) == \E d \in 1..10 : DigitChars[d] = c

DigitVal(c) == (CHOOSE d \in 1..10 : DigitChars[d] = c) - 1

\* Rounding of the exact quotient a / b (a >= 0, b > 0) to the nearest
\* representable value, ties to even.
RoundDiv(a, b) ==
    LET q == a \div b
        r == a % b
    IN  IF 2 * r > b \/ (2 * r = b /\ q % 2 = 1) THEN q + 1 ELSE q

\* str.replace(old, ""): every occurrence of the one-character string old is
\* removed, scanning left to right.
RECURSIVE ReplaceFirstOnly(_, _)
ReplaceFirstOnly(s, old) ==
    IF s = <<>> THEN <<>>
    ELSE IF Head(s) = old THEN Tail(s)
    ELSE <<Head(s)>> \o ReplaceFirstOnly(Tail(s), old)

RECURSIVE Replace(_, _)
Replace(s, old) ==
    IF s = <<>> THEN <<>>
    ELSE IF Head(s) = old THEN Replace(Tail(s), old)
    ELSE <<Head(s)>> \o Replace(Tail(s), old)

\* row["close"].replace("$", "").replace(",", "")
StripCurrency(s) == Replace(Replace(s, "$"), ",")

\* The integer a string of digits denotes (Horner, left to right).
RECURSIVE DigitsToInt(_, _)
DigitsToInt(s, acc) ==
    IF s = <<>> THEN acc ELSE DigitsToInt(Tail(s), 10 * acc + DigitVal(Head(s)))

DotPositions(s) == {k \in 1..Len(s) : s[k] = "."}

\* float(s) for text made of digits and at most one ".", at least one digit;
\* any other text raises ValueError.  (Signs, exponents, white space,
\* underscores, inf and nan are outside the alphabet of the model.)
FloatSyntaxOk(s) ==
    /\ \A k \in 1..Len(s) : IsDigit(s[k]) \/ s[k] = "."
    /\ Cardinality(DotPositions(s)) <= 1
    /\ \E k \in 1..Len(s) : IsDigit(s[k])

ParseFloat(s) ==
    IF ~FloatSyntaxOk(s) THEN [ok |-> FALSE, val |-> 0]
    ELSE LET digits == Replace(s, ".")
             nfrac == IF DotPositions(s) = {} THEN 0
                      ELSE Len(s) - (CHOOSE k \in DotPositions(s) : TRUE)
         IN  [ok |-> TRUE,
              val |-> RoundDiv(DigitsToInt(digits, 0) * Unit, Pow10(nfrac))]

RECURSIVE IntToDigits(_)
IntToDigits(n) ==
    IF n < 10 THEN <<DigitChars[n + 1]>>
    ELSE IntToDigits(n \div 10) \o <<DigitChars[(n % 10) + 1]>>

RECURSIVE StripTrailingZeros(_)
StripTrailingZeros(s) ==
    IF Len(s) > 1 /\ s[Len(s)] = "0"
    THEN StripTrailingZeros(SubSeq(s, 1, Len(s) - 1))
    ELSE s

\* The fraction digits of v, FracDigits of them, leading zeros kept.
FracText(v) ==
    LET f == IntToDigits(v % Unit)
    IN  [k \in 1..(FracDigits - Len(f)) |-> "0"] \o f

\* float.__repr__, which the JSON encoder uses for a float: the shortest
\* text that reads back as the same value, never without a fraction digit.
FormatFloat(v) ==
    IntToDigits(v \div Unit) \o <<".">> \o StripTrailingZeros(FracText(v))

-----------------------------------------------------------------------------
(* Values *)

EmptyDict == <<>>

None == [none |-> TRUE]

Returned(v) == [raised |-> FALSE, value |-> v, error |-> "none"]

Raised(e) == [raised |-> TRUE, value |-> EmptyDict, error |-> e]

-----------------------------------------------------------------------------
(* statistics.mean, statistics.median, min, max *)

RECURSIVE SumSeq(_)
SumSeq(s) == IF s = <<>> THEN 0 ELSE Head(s) + SumSeq(Tail(s))

RECURSIVE MinFold(_, _)
MinFold(s, best) ==
    IF s = <<>> THEN best
    ELSE MinFold(Tail(s), IF Head(s) < best THEN Head(s) ELSE best)

Min(s) == MinFold(Tail(s), Head(s))

RECURSIVE MaxFold(_, _)
MaxFold(s, best) ==
    IF s = <<>> THEN best
    ELSE MaxFold(Tail(s), IF Head(s) > best THEN Head(s) ELSE best)

Max(s) == MaxFold(Tail(s), Head(s))

\* mean sums exactly and rounds the exact quotient once.
MeanUndivided(s) == SumSeq(s)

Mean(s) == RoundDiv(SumSeq(s), Len(s))

RECURSIVE Insert(_, _)
Insert(x, s) ==
    IF s = <<>> THEN <<x>>
    ELSE IF x <= Head(s) THEN <<x>> \o s
    ELSE <<Head(s)>> \o Insert(x, Tail(s))

RECURSIVE Sorted(_)
Sorted(s) == IF s = <<>> THEN <<>> ELSE Insert(Head(s), Sorted(Tail(s)))

\* median sorts, then takes the middle value or the mean of the two middle
\* values.
MedianUpperMiddle(s) == Sorted(s)[(Len(s) \div 2) + 1]

Median(s) ==
    LET d == Sorted(s)
        n == Len(d)
    IN  IF n % 2 = 1 THEN d[(n \div 2) + 1]
        ELSE RoundDiv(d[n \div 2] + d[(n \div 2) + 1], 2)

-----------------------------------------------------------------------------
(* process_data *)

\* float(row["close"].replace("$", "").replace(",", ""))
ParseClose(close) == ParseFloat(StripCurrency(close))

Statistics(closing_prices, symbol) ==
    [min    |-> Min(closing_prices),
     max    |-> Max(closing_prices),
     avg    |-> Mean(closing_prices),
     median |-> Median(closing_prices),
     ticker |-> symbol]

\* The return statement: min() of an empty list raises ValueError.
ReduceGuarded(closing_prices, symbol) ==
    IF closing_prices = <<>> THEN Returned(EmptyDict)
    ELSE Returned(Statistics(closing_prices, symbol))

Reduce(closing_prices, symbol) ==
    IF closing_prices = <<>> THEN Raised("ValueError")
    ELSE Returned(Statistics(closing_prices, symbol))

ProcessData(d) ==
    IF d = EmptyDict THEN Returned(EmptyDict)
    ELSE IF "tradesTable" \notin DOMAIN d.data THEN Raised("KeyError")
    ELSE
      LET rows == d.data.tradesTable.rows
          parsed == [k \in 1..Len(rows) |-> ParseClose(rows[k].close)]
      IN  IF \E k \in 1..Len(rows) : ~parsed[k].ok THEN Raised("ValueError")
          ELSE
            Reduce([k \in 1..Len(rows) |-> parsed[k].val], d.data.symbol)

\* if stats: stats_list.append(stats)
AppendAlways(list, st) == Append(list, st)

AppendIfStats(list, st) == IF st # EmptyDict THEN Append(list, st) ELSE list

-----------------------------------------------------------------------------
(* json.dumps(stats_list, indent=4) and json.dump(stats_list, file,        *)
(* indent=4).  A text is a sequence of lines, a line an indentation and a  *)
(* sequence of tokens.                                                     *)

P(c) == [p |-> c]
K(k) == [key |-> k]
N(t) == [num |-> t]
S(t) == [str |-> t]

Line(depth, toks) == [indent |-> depth * Indent, toks |-> toks]

Member(k, v, last) ==
    Line(2, <<K(k), P(":"), v>> \o (IF last THEN <<>> ELSE <<P(",")>>))

DumpRecord(r, last) ==
    << Line(1, <<P("{")>>),
       Member("min", N(FormatFloat(r.min)), FALSE),
       Member("max", N(FormatFloat(r.max)), FALSE),
       Member("avg", N(FormatFloat(r.avg)), FALSE),
       Member("median", N(FormatFloat(r.median)), FALSE),
       Member("ticker", S(r.ticker), TRUE),
       Line(1, <<P("}")>> \o (IF last THEN <<>> ELSE <<P(",")>>)) >>

RECURSIVE DumpItems(_, _)
DumpItems(list, k) ==
    IF k > Len(list) THEN <<>>
    ELSE DumpRecord(list[k], k = Len(list)) \o DumpItems(list, k + 1)

Dumps(list) ==
    IF list = <<>> THEN << Line(0, <<P("["), P("]")>>) >>
    ELSE << Line(0, <<P("[")>>) >> \o DumpItems(list, 1) \o << Line(0, <<P("]")>>) >>

-----------------------------------------------------------------------------
(* download_data *)

LowerChars == <<"a", "f", "l", "m", "p", "s", "t">>
UpperChars == <<"A", "F", "L", "M", "P", "S", "T">>

UpperChar(c) ==
    IF \E k \in 1..Len(LowerChars) : LowerChars[k] = c
    THEN UpperChars[CHOOSE k \in 1..Len(LowerChars) : LowerChars[k] = c]
    ELSE c

\* ticker.upper()
Upper(t) == [k \in 1..Len(t) |-> UpperChar(t[k])]

IsLeap(y) == (y % 4 = 0 /\ y % 100 # 0) \/ y % 400 = 0

DaysIn(y, m) ==
    IF m = 2 THEN (IF IsLeap(y) THEN 29 ELSE 28)
    ELSE IF m \in {4, 6, 9, 11} THEN 30 ELSE 31

\* today.replace(year=today.year - 5): ValueError when that year has no
\* such day.
StartDate(day) ==
    LET y == day.year - YearsBack
    IN  IF day.day <= DaysIn(y, day.month)
        THEN [ok |-> TRUE, date |-> [year |-> y, month |-> day.month, day |-> day.day]]
        ELSE [ok |-> FALSE, date |-> day]

\* Lines of standard output.
OutLine(kind, ticker, e, text) ==
    [line |-> kind, ticker |-> ticker, e |-> e, text |-> text]

UsageLine == OutLine("usage", <<>>, "none", <<>>)
AcquiredLine(T) == OutLine("acquired", T, "none", <<>>)
NoDataLine(T) == OutLine("no_data", T, "none", <<>>)
AcqErrorLine(T, e) == OutLine("acq_error", T, e, <<>>)
JsonLine(text) == OutLine("json", <<>>, "none", text)
WrittenLine == OutLine("written", <<>>, "none", <<>>)
WriteErrorLine == OutLine("write_error", <<>>, "OSError", <<>>)

\* What the request meets: get raising, raise_for_status raising, json()
\* raising, or a parsed body.
Outcome(kind, body) == [kind |-> kind, body |-> body]

Call(raised, value, error, out, requested) ==
    [raised |-> raised, value |-> value, error |-> error, out |-> out,
     requested |-> requested]

DownloadData(ticker, day, o) ==
    LET T == Upper(ticker)
        start == StartDate(day)
    IN  IF ~start.ok THEN Call(TRUE, EmptyDict, "ValueError", <<>>, FALSE)
        ELSE IF o.kind = "transport_error"
        THEN Call(FALSE, EmptyDict, "none", <<AcqErrorLine(T, "ConnectionError")>>, TRUE)
        ELSE IF o.kind = "http_error"
        THEN Call(FALSE, EmptyDict, "none", <<AcqErrorLine(T, "HTTPError")>>, TRUE)
        ELSE IF o.kind = "bad_json"
        THEN Call(FALSE, EmptyDict, "none", <<AcqErrorLine(T, "JSONDecodeError")>>, TRUE)
        ELSE IF "data" \notin DOMAIN o.body
        THEN Call(FALSE, EmptyDict, "none", <<AcqErrorLine(T, "KeyError")>>, TRUE)
        ELSE IF o.body.data = None
        THEN Call(FALSE, EmptyDict, "none", <<NoDataLine(T)>>, TRUE)
        ELSE Call(FALSE, o.body, "none", <<AcquiredLine(T)>>, TRUE)

Request(ticker, day, o) ==
    [ticker |-> Upper(ticker), fromdate |-> StartDate(day).date, outcome |-> o]

-----------------------------------------------------------------------------
(* The inputs *)

SeqsUpTo(elems, n) == UNION {[1..k -> elems] : k \in 0..n}

Tickers == { <<"a", "a", "p", "l">>, <<"M", "S", "F", "T">> }

Symbols == { <<"A", "A", "P", "L">>, <<"M", "S", "F", "T">> }

ProgramName == <<"stocks.py">>

Dates == { [year |-> 2026, month |-> 11, day |-> 4],
           [year |-> 2028, month |-> 2, day |-> 29] }

Close10 == <<"$", "1", "0", ".", "0", "0">>
Close20 == <<"$", "2", "0", ".", "0", "0">>
Close30 == <<"$", "3", "0", ".", "0", "0">>
Close1234 == <<"$", "1", ",", "2", "3", "4", ".", "5", "6">>
CloseNA == <<"N", "/", "A">>

Alphabet == {"$", ",", ".", "0", "1", "2"}

Row(close) == [close |-> close]

QuoteData(sym, rows) == [symbol |-> sym, tradesTable |-> [rows |-> rows]]

RowsOver(closes, n) == SeqsUpTo({Row(c) : c \in closes}, n)

FailureOutcomes ==
    { Outcome("transport_error", EmptyDict),
      Outcome("http_error", EmptyDict),
      Outcome("bad_json", EmptyDict),
      Outcome("json", [message |-> "error"]),
      Outcome("json", [data |-> None]) }

NoTableOutcome == Outcome("json", [data |-> [symbol |-> <<"M", "S", "F", "T">>]])

QuoteOutcomes(closes, n) ==
    { Outcome("json", [data |-> QuoteData(sym, rows)]) :
        sym \in Symbols, rows \in RowsOver(closes, n) }

BadCloseOutcome ==
    Outcome("json", [data |-> QuoteData(<<"A", "A", "P", "L">>, <<Row(CloseNA)>>)])

RunOutcomes ==
    FailureOutcomes \cup {NoTableOutcome, BadCloseOutcome}
        \cup QuoteOutcomes({Close10, Close1234}, MaxRunRows)

ProcessOutcomes ==
    FailureOutcomes \cup {NoTableOutcome, BadCloseOutcome}
        \cup QuoteOutcomes({Close10, Close20, Close30, Close1234}, MaxRows)
        \cup { Outcome("json", [data |-> QuoteData(<<"M", "S", "F", "T">>, <<Row(c)>>)]) :
                 c \in SeqsUpTo(Alphabet, MaxStrLen) }

OldRecord ==
    [min |-> Unit, max |-> 3 * Unit, avg |-> 2 * Unit, median |-> 2 * Unit,
     ticker |-> <<"O", "L", "D">>]

\* stocks.json before the run: what an earlier run wrote.
PriorFile == Dumps(<<OldRecord>>)

WriteOutcomes == {"ok", "open_error", "dump_error", "close_error"}

-----------------------------------------------------------------------------
(* main *)

Running == -1

NoExc == [type |-> "none", in |-> "none"]

Init ==
    /\ arguments \in {ProgramName \o t : t \in SeqsUpTo(Tickers, MaxTickers)}
    /\ today \in Dates
    /\ prior = PriorFile
    /\ file = prior
    /\ pc = "main"
    /\ i = 0
    /\ data = EmptyDict
    /\ stats = EmptyDict
    /\ stats_list = <<>>
    /\ stdout = <<>>
    /\ net = <<>>
    /\ opened = FALSE
    /\ wr = "none"
    /\ exc = NoExc
    /\ exit_code = Running

\* if len(arguments) < 2
NoTickersLenient == Len(arguments) < 1

NoTickers == Len(arguments) < 2

Usage ==
    /\ pc = "main"
    /\ NoTickers
    /\ stdout' = Append(stdout, UsageLine)
    /\ exit_code' = 1
    /\ pc' = "exited"
    /\ UNCHANGED <<arguments, today, prior, i, data, stats, stats_list, net,
                   file, opened, wr, exc>>

Begin ==
    /\ pc = "main"
    /\ ~NoTickers
    /\ stats_list' = <<>>
    /\ i' = 2
    /\ pc' = "for"
    /\ UNCHANGED <<arguments, today, prior, data, stats, stdout, net, file,
                   opened, wr, exc, exit_code>>

\* An exception nothing catches: traceback, exit status 1.
Crash(e, where) ==
    /\ pc' = "crashed"
    /\ exc' = [type |-> e, in |-> where]
    /\ exit_code' = 1

Download ==
    /\ pc = "for"
    /\ i <= Len(arguments)
    /\ \E o \in RunOutcomes :
         LET r == DownloadData(arguments[i], today, o)
         IN  /\ net' = IF r.requested
                       THEN Append(net, Request(arguments[i], today, o)) ELSE net
             /\ stdout' = stdout \o r.out
             /\ IF r.raised
                THEN /\ Crash(r.error, "download_data")
                     /\ UNCHANGED data
                ELSE /\ data' = r.value
                     /\ pc' = "process"
                     /\ UNCHANGED <<exc, exit_code>>
    /\ UNCHANGED <<arguments, today, prior, i, stats, stats_list, file, opened, wr>>

Process ==
    /\ pc = "process"
    /\ LET r == ProcessData(data)
       IN  IF r.raised
           THEN /\ Crash(r.error, "process_data")
                /\ UNCHANGED <<i, stats, stats_list>>
           ELSE /\ stats' = r.value
                /\ stats_list' = AppendIfStats(stats_list, r.value)
                /\ i' = i + 1
                /\ pc' = "for"
                /\ UNCHANGED <<exc, exit_code>>
    /\ UNCHANGED <<arguments, today, prior, data, stdout, net, file, opened, wr>>

\* print(dumps(stats_list, indent=4))
Serialize ==
    /\ pc = "for"
    /\ i > Len(arguments)
    /\ stdout' = Append(stdout, JsonLine(Dumps(stats_list)))
    /\ pc' = "write"
    /\ UNCHANGED <<arguments, today, prior, i, data, stats, stats_list, net,
                   file, opened, wr, exc, exit_code>>

\* What a failed write leaves behind: the text cut short.  Two cuts stand for
\* all of them: nothing flushed, and everything but the last line flushed.
CutShort(text) == { <<>>, SubSeq(text, 1, Len(text) - 1) }

\* open("stocks.json", "w") truncates; the file then holds what was written.
WrittenAppending(old, text) == old \o text

Written(old, text) == text

\* The lines the try block prints under each outcome of the write.  The
\* confirmation is printed inside the with block, before the file is closed.
WriteLines(w) ==
    IF w = "ok" THEN <<WrittenLine>>
    ELSE IF w = "close_error" THEN <<WrittenLine, WriteErrorLine>>
    ELSE <<WriteErrorLine>>

WriteFile ==
    /\ pc = "write"
    /\ \E w \in WriteOutcomes :
         /\ wr' = w
         /\ stdout' = stdout \o WriteLines(w)
         /\ IF w = "open_error" THEN file' = file
            ELSE IF w = "ok" THEN file' = Written(file, Dumps(stats_list))
            ELSE file' \in CutShort(Written(file, Dumps(stats_list)))
    /\ opened' = TRUE
    /\ pc' = "done"
    /\ exit_code' = 0
    /\ UNCHANGED <<arguments, today, prior, i, data, stats, stats_list, net, exc>>

Next == Usage \/ Begin \/ Download \/ Process \/ Serialize \/ WriteFile

Spec == Init /\ [][Next]_vars

\* process_data alone: the states in which download_data has just returned
\* for the only ticker of a run, and the step that processes what it returned.
InitProcess ==
    /\ arguments \in {ProgramName \o <<t>> : t \in Tickers}
    /\ today = [year |-> 2026, month |-> 11, day |-> 4]
    /\ prior = PriorFile
    /\ file = prior
    /\ pc = "process"
    /\ i = 2
    /\ \E o \in ProcessOutcomes :
         LET r == DownloadData(arguments[2], today, o)
         IN  /\ data = r.value
             /\ stdout = r.out
             /\ net = <<Request(arguments[2], today, o)>>
    /\ stats = EmptyDict
    /\ stats_list = <<>>
    /\ opened = FALSE
    /\ wr = "none"
    /\ exc = NoExc
    /\ exit_code = Running

SpecProcess == InitProcess /\ [][Process]_vars

-----------------------------------------------------------------------------
(* Vocabulary of the properties *)

Terminal == {"exited", "crashed", "done"}

NTickers == Len(arguments) - 1

RowsOf(d) == d.data.tradesTable.rows

HasRows(d) == d # EmptyDict /\ "tradesTable" \in DOMAIN d.data

HasEmptyRows(d) == HasRows(d) /\ RowsOf(d) = <<>>

Failed(o) == o.kind # "json" \/ "data" \notin DOMAIN o.body \/ o.body.data = None

Omitted(o) == Failed(o) \/ HasEmptyRows(o.body)

UsableRequest(q) == ~Omitted(q.outcome)

StatusKinds == {"acquired", "no_data", "acq_error"}

Diagnostics == {"no_data", "acq_error"}

JsonValue(tok) ==
    IF "num" \in DOMAIN tok THEN ParseFloat(tok.num).val ELSE tok.str

\* Reading a JSON text back (json.load): indentation is white space and is
\* skipped; "{" opens a record, a member line sets one field of it, "}"
\* appends the record to the list.
RECURSIVE LoadLines(_, _, _, _)
LoadLines(text, k, cur, acc) ==
    IF k > Len(text) THEN acc
    ELSE LET t == text[k].toks
         IN  IF "key" \in DOMAIN t[1]
             THEN LoadLines(text, k + 1, cur @@ (t[1].key :> JsonValue(t[3])), acc)
             ELSE IF t[1] = P("{") THEN LoadLines(text, k + 1, <<>>, acc)
             ELSE IF t[1] = P("}") THEN LoadLines(text, k + 1, <<>>, Append(acc, cur))
             ELSE LoadLines(text, k + 1, cur, acc)

Loads(text) == LoadLines(text, 1, <<>>, <<>>)

JsonPrinted == \E k \in 1..Len(stdout) : stdout[k].line = "json"

\* C1: every run with at least one ticker ends normally with exit code 0,
\* whatever the fetches yield and whether or not the write succeeds (stated
\* for the days on which the start date exists).
C1_ExitZero ==
    (NTickers >= 1 /\ StartDate(today).ok /\ pc \in Terminal)
        => (pc = "done" /\ exit_code = 0)

\* C2: with zero ticker arguments the run prints the usage string and exits
\* with status 1; no request is made, nothing is serialized, stocks.json is
\* not opened.
C2_UsageOnly ==
    NTickers = 0 =>
        /\ net = <<>>
        /\ ~opened
        /\ file = prior
        /\ ~JsonPrinted
        /\ pc \in {"main", "exited"}
        /\ pc = "main" => (stdout = <<>> /\ exit_code = Running)
        /\ pc = "exited" => (stdout = <<UsageLine>> /\ exit_code = 1)

C2_Witness == NTickers = 0 /\ pc = "exited" /\ stdout = <<UsageLine>>

C4_NeverRaises ==
    /\ exc.in # "download_data"
    /\ pc = "process" =>
         LET q == net[Len(net)]
             out == stdout[Len(stdout)]
         IN  /\ Len(stdout) = Len(net)
             /\ out.ticker = q.ticker
             /\ Failed(q.outcome) => (data = EmptyDict /\ out.line \in Diagnostics)
             /\ ~Failed(q.outcome) => (data = q.outcome.body /\ out.line = "acquired")

\* The parsed closing prices of a response whose closes all parse.
ClosesOf(d) == [k \in 1..Len(RowsOf(d)) |-> ParseClose(RowsOf(d)[k].close).val]

AllParse(d) == \A k \in 1..Len(RowsOf(d)) : ParseClose(RowsOf(d)[k].close).ok

AtMost(v, x) == Cardinality({k \in 1..Len(v) : v[k] <= x})

AtLeast(v, x) == Cardinality({k \in 1..Len(v) : v[k] >= x})

Abs(x) == IF x < 0 THEN -x ELSE x

\* m is the median of v: the middle value in order, or the float nearest to
\* half the sum of the two middle values.
IsMedian(v, m) ==
    LET n == Len(v)
        h == n \div 2
    IN  IF n % 2 = 1
        THEN /\ \E k \in 1..n : v[k] = m
             /\ AtMost(v, m) >= h + 1
             /\ AtLeast(v, m) >= h + 1
        ELSE \E a, b \in 1..n :
               /\ AtMost(v, v[a]) >= h /\ AtLeast(v, v[a]) >= h + 1
               /\ AtMost(v, v[b]) >= h + 1 /\ AtLeast(v, v[b]) >= h
               /\ Abs(2 * m - (v[a] + v[b])) <= 1
               /\ (2 * m # v[a] + v[b]) => m % 2 = 0

\* C5: for every response with a non-empty records sequence the statistics
\* satisfy min <= avg <= max and min <= median <= max.
C5_Ordered ==
    (pc = "for" /\ data # EmptyDict) =>
        /\ RowsOf(data) # <<>>
        /\ stats # EmptyDict
        /\ stats.min <= stats.avg /\ stats.avg <= stats.max
        /\ stats.min <= stats.median /\ stats.median <= stats.max

C5_Witness ==
    /\ pc = "for"
    /\ HasRows(data)
    /\ Len(RowsOf(data)) = 3
    /\ stats.min < stats.median /\ stats.median < stats.avg
    /\ stats.avg < stats.max

\* C6: process_data returns the empty sentinel for the empty sentinel; for a
\* response with a non-empty records sequence it returns the minimum, the
\* maximum, the arithmetic mean and the median of the parsed closing prices,
\* with the symbol field of the response as ticker; closes $10.00, $20.00,
\* $30.00 give min 10, max 30, avg 20, median 20.
C6_ProcessData ==
    /\ data = EmptyDict => pc \in {"process", "for"}
    /\ (pc = "for" /\ data = EmptyDict) => (stats = EmptyDict /\ stats_list = <<>>)
    /\ (pc = "crashed" /\ HasRows(data)) => (RowsOf(data) = <<>> \/ ~AllParse(data))
    /\ (pc = "for" /\ data # EmptyDict) =>
         LET v == ClosesOf(data)
             n == Len(v)
         IN  /\ n >= 1
             /\ DOMAIN stats = {"min", "max", "avg", "median", "ticker"}
             /\ \E k \in 1..n : v[k] = stats.min
             /\ \A k \in 1..n : stats.min <= v[k]
             /\ \E k \in 1..n : v[k] = stats.max
             /\ \A k \in 1..n : v[k] <= stats.max
             /\ 2 * Abs(n * stats.avg - SumSeq(v)) <= n
             /\ IsMedian(v, stats.median)
             /\ stats.ticker = data.data.symbol
             /\ stats_list = <<stats>>
             /\ RowsOf(data) = <<Row(Close10), Row(Close20), Row(Close30)>> =>
                  /\ stats.min = 10 * Unit /\ stats.max = 30 * Unit
                  /\ stats.avg = 20 * Unit /\ stats.median = 20 * Unit

C6_Witness ==
    /\ pc = "for"
    /\ HasRows(data)
    /\ RowsOf(data) = <<Row(Close10), Row(Close20), Row(Close30)>>
    /\ stats = [min |-> 10 * Unit, max |-> 30 * Unit, avg |-> 20 * Unit,
                median |-> 20 * Unit, ticker |-> <<"M", "S", "F", "T">>]
    /\ stats.ticker # Upper(arguments[2])

IsMark(c) == c \in {"$", ","}

NotMark(c) == ~IsMark(c)

\* The integer a string of digits denotes: the sum of its digits, each
\* weighted by its place.
RECURSIVE PlaceSum(_)
PlaceSum(s) ==
    IF s = <<>> THEN 0
    ELSE DigitVal(s[Len(s)]) + 10 * PlaceSum(SubSeq(s, 1, Len(s) - 1))

\* The float nearest to the number a numeral (digits, at most one ".")
\* denotes.
Denoted(s) ==
    LET dot == DotPositions(s)
        whole == IF dot = {} THEN s
                 ELSE SubSeq(s, 1, (CHOOSE k \in dot : TRUE) - 1)
        frac == IF dot = {} THEN <<>>
                ELSE SubSeq(s, (CHOOSE k \in dot : TRUE) + 1, Len(s))
    IN  RoundDiv(PlaceSum(whole \o frac) * Unit, Pow10(Len(frac)))

\* C7: the close parse removes every "$" and every "," wherever and however
\* often they occur before converting: the close parses to the number that
\* what is left of it denotes ("$1,234.56" gives 1234.56), a close that
\* leaves no numeral fails, and a close without those characters parses as
\* it stands.
C7_Strip ==
    (pc # "process" /\ HasRows(data) /\ Len(RowsOf(data)) = 1) =>
        LET s == RowsOf(data)[1].close
            kept == SelectSeq(s, NotMark)
        IN  /\ FloatSyntaxOk(kept) => (pc = "for" /\ stats.min = Denoted(kept))
            /\ ~FloatSyntaxOk(kept) => pc = "crashed"
            /\ s = Close1234 => (pc = "for" /\ stats.min = 123456 * (Unit \div 100))
            /\ (kept = s /\ ParseFloat(s).ok) =>
                 (pc = "for" /\ stats.min = ParseFloat(s).val)

C7_Witness ==
    /\ pc = "for"
    /\ HasRows(data)
    /\ RowsOf(data) = <<Row(Close1234)>>
    /\ stats.min = 123456 * (Unit \div 100)

\* C8: in a run with at least one ticker stdout holds, in this order, one
\* status line per ticker in argument order, each printed before the next
\* fetch starts, then the serialization of stats_list, then exactly one of
\* the confirmation and the error line of the write, the confirmation only
\* if the write fully succeeded.
C8_OutputOrder ==
    NTickers >= 1 =>
        /\ Len(stdout) <= NTickers + 2
        /\ Len(net) <= Len(stdout)
        /\ \A k \in 1..Len(stdout) :
             /\ k <= NTickers =>
                  /\ stdout[k].line \in StatusKinds
                  /\ stdout[k].ticker = Upper(arguments[k + 1])
                  /\ k <= Len(net)
             /\ k = NTickers + 1 =>
                  (stdout[k].line = "json" /\ stdout[k].text = Dumps(stats_list))
             /\ k = NTickers + 2 =>
                  /\ stdout[k].line \in {"written", "write_error"}
                  /\ stdout[k].line = "written" => wr = "ok"
        /\ pc = "done" => Len(stdout) = NTickers + 2

\* C9: after a run in which the write succeeds stocks.json holds only the
\* serialization of this run's stats_list, the same text as was printed, and
\* reading it back gives stats_list, record for record in the same order.
C9_RoundTrip ==
    (pc = "done" /\ wr = "ok") =>
        /\ file = stdout[NTickers + 1].text
        /\ file = Dumps(stats_list)
        /\ Loads(file) = stats_list
        /\ \A k \in 1..Len(file) : \A t \in 1..Len(file[k].toks) :
             file[k].toks[t] # S(OldRecord.ticker)

C9_Witness ==
    /\ pc = "done"
    /\ wr = "ok"
    /\ Len(stats_list) = 2
    /\ stats_list[1] # stats_list[2]
    /\ stats_list[1].max = 123456 * (Unit \div 100)
    /\ Loads(file) = stats_list
    /\ file # prior

\* C10: a successful fetch with an empty records sequence makes process_data
\* fail in the reduction; nothing catches the failure, so no later ticker is
\* fetched, stats_list is not printed and stocks.json is not written.
C10_EmptyRowsFail ==
    HasEmptyRows(data) =>
        /\ pc \in {"process", "crashed"}
        /\ pc = "crashed" =>
             /\ exc = [type |-> "ValueError", in |-> "process_data"]
             /\ ~ENABLED Next
             /\ Len(net) = i - 1
             /\ ~JsonPrinted
             /\ ~opened
             /\ file = prior
             /\ wr = "none"

C10_Witness ==
    /\ pc = "crashed"
    /\ HasEmptyRows(data)
    /\ i < Len(arguments)
    /\ Len(stats_list) = 0
    /\ stdout[Len(stdout)].line = "acquired"

====
